---- MODULE Spec2Model ----
(***************************************************************************)
(* Model of src/pay/payment_consumer.py: the PaymentConsumer worker thread *)
(* (run / _consume_batch), its report store helpers                        *)
(* (create_payment_report, clean_failed_payment_reports) and the           *)
(* reconciliation of the calculation report                                *)
(* (add_transaction_fees_to_calculation_report).                           *)
(*                                                                         *)
(* The collaborators that are imported by the file but not part of it      *)
(* (phaseMapping, phaseMerge, phaseZeroBalance, cmp_by_type_balance,       *)
(* BatchPayer.pay, the CSV parsers, dir_utils) are modelled from their     *)
(* described interface.                                                    *)
(*                                                                         *)
(* Spec is one worker with its producers; SpecStop adds stop(); SpecStats  *)
(* varies the settings of the stats step; SpecPeers is the workers of two  *)
(* payout keys on one file system, followed through their file operations. *)
(***************************************************************************)
EXTENDS Integers, Sequences, FiniteSets, TLC

\* ------------------------------------------------------------------ bounds
\* longest batch a producer enqueues
MaxItems == 2
\* how many times a producer re-enqueues a batch it got back in a callback
MaxResubmits == 1

\* ------------------------------------------------------------ value domains
Addresses == {"a1", "a2"}
Cycles == {100}

UNPAID == "Unpaid"
PAID == "Paid"
FAIL == "Fail"
INJECTED == "Injected"

TYPE_FOUNDER == "F"
TYPE_OWNER == "O"
TYPE_DELEGATOR == "D"
TYPE_MERGED == "M"
EXIT_PAYMENT_TYPE == "exit"

NOTE == "Not in payment log. "

\* PaymentStatus.is_processed
is_processed(paid) == paid \in {PAID, INJECTED}

\* a payment item (RewardLog) as this file reads and writes it
Item(addr, type, amount, payable, paid) ==
    [address |-> addr, type |-> type, adjusted_amount |-> amount,
     payable |-> payable, paid |-> paid,
     delegate_transaction_fee |-> 0, delegator_transaction_fee |-> 0]

\* the amount a producer computed for an address
AmountOf(addr) == IF addr = "a1" THEN 1 ELSE 2

\* items a producer puts into a fresh batch
ItemPool ==
    { Item(a, TYPE_DELEGATOR, AmountOf(a), p, s) :
        a \in Addresses, p \in BOOLEAN, s \in {UNPAID, PAID, INJECTED} }

ExitItem == Item("a1", EXIT_PAYMENT_TYPE, 0, TRUE, UNPAID)

SeqsUpTo(S, n) == UNION { [1..k -> S] : k \in 0..n }

\* PaymentBatch(producer_ref, cycle, batch)
PaymentBatch(ref, cycle, items) ==
    [producer_ref |-> ref, cycle |-> cycle, batch |-> items]

FreshBatches ==
    { PaymentBatch(r, c, items) :
        r \in BOOLEAN, c \in Cycles, items \in SeqsUpTo(ItemPool, MaxItems) }

\* the shutdown batch: the exit item first, anything after it
ExitBatches ==
    { PaymentBatch(FALSE, c, <<ExitItem>> \o rest) :
        c \in Cycles,
        rest \in SeqsUpTo({ i \in ItemPool : i.payable /\ i.paid = UNPAID /\ i.address = "a1" },
                          MaxItems - 1) }

\* ------------------------------------------------------------ pure helpers
RECURSIVE SumAmounts(_)
SumAmounts(s) ==
    IF s = <<>> THEN 0 ELSE Head(s).adjusted_amount + SumAmounts(Tail(s))

Count(s, status) == Len(SelectSeq(s, LAMBDA i : i.paid = status))

\* count_and_log_failed: (nb_paid, nb_failed, nb_injected)
count_and_log_failed(logs) ==
    <<Count(logs, PAID), Count(logs, FAIL), Count(logs, INJECTED)>>

Range(s) == { s[i] : i \in 1..Len(s) }

\* ----------------------------------------------------- transform pipeline
\* line 131: non-payable items are dropped
PayableItems(items) == SelectSeq(items, LAMBDA pi : pi.payable)

\* line 132 testing for PAID instead of is_processed()
AlreadyPaidItemsPaidOnly(items) == SelectSeq(items, LAMBDA pi : pi.paid = PAID)

\* line 132: items already Paid or Injected are carried to the report
AlreadyPaidItems(items) == SelectSeq(items, LAMBDA pi : is_processed(pi.paid))

\* line 133 without its filter
UnprocessedItemsUnfiltered(items) == items

\* line 133: only unprocessed items go on to the pipeline
UnprocessedItems(items) == SelectSeq(items, LAMBDA pi : ~is_processed(pi.paid))

\* CalculatePhaseMapping: rewrite the address of items the map names
PhaseMapping(items, dest_map) ==
    [i \in 1..Len(items) |->
        IF items[i].address \in DOMAIN dest_map
        THEN [items[i] EXCEPT !.address = dest_map[items[i].address]]
        ELSE items[i]]

MergedItem(addr, group) ==
    Item(addr, TYPE_MERGED, SumAmounts(group), TRUE, UNPAID)

\* CalculatePhaseMerge: one Merged item per address shared by several items,
\* in the order the addresses are first seen
RECURSIVE PhaseMerge(_)
PhaseMerge(items) ==
    IF items = <<>> THEN <<>>
    ELSE LET h == Head(items)
             group == SelectSeq(items, LAMBDA pi : pi.address = h.address)
             rest == SelectSeq(items, LAMBDA pi : pi.address # h.address)
         IN <<IF Len(group) > 1 THEN MergedItem(h.address, group) ELSE h>>
            \o PhaseMerge(rest)

\* CalculatePhaseZeroBalance: zeroed is the set of addresses whose balance
\* the lookup reported as zero
PhaseZeroBalance(items, reactivate_zeroed, zeroed) ==
    IF reactivate_zeroed THEN items
    ELSE SelectSeq(items, LAMBDA pi : pi.address \notin zeroed)

TypePriority(type) ==
    CASE type = TYPE_FOUNDER -> 1
      [] type = TYPE_OWNER -> 2
      [] type = TYPE_DELEGATOR -> 3
      [] type = TYPE_MERGED -> 4
      [] OTHER -> 5

\* cmp_by_type_balance: by type, then by amount
cmp_by_type_balance(x, y) ==
    IF TypePriority(x.type) # TypePriority(y.type)
    THEN TypePriority(x.type) - TypePriority(y.type)
    ELSE x.adjusted_amount - y.adjusted_amount

RECURSIVE InsertSorted(_, _)
InsertSorted(x, s) ==
    IF s = <<>> THEN <<x>>
    ELSE IF cmp_by_type_balance(x, Head(s)) < 0 THEN <<x>> \o s
    ELSE <<Head(s)>> \o InsertSorted(x, Tail(s))

\* list.sort(key=cmp_to_key(cmp_by_type_balance)): a stable sort
RECURSIVE SortItems(_)
SortItems(items) ==
    IF items = <<>> THEN <<>>
    ELSE InsertSorted(items[Len(items)], SortItems(SubSeq(items, 1, Len(items) - 1)))

\* the addresses whose balance the zero-balance phase looks up
LookedUp(items, dest_map) ==
    { pi.address :
        pi \in Range(PhaseMerge(PhaseMapping(UnprocessedItems(PayableItems(items)),
                                             dest_map))) }

\* lines 130-149 without the zero-balance phase of lines 143-147
CandidatesUnfiltered(items, dest_map, reactivate_zeroed, zeroed) ==
    SortItems(PhaseMerge(PhaseMapping(UnprocessedItems(PayableItems(items)), dest_map)))

\* lines 130-149 without the merge phase of lines 139-141
CandidatesUnmerged(items, dest_map, reactivate_zeroed, zeroed) ==
    SortItems(
        PhaseZeroBalance(PhaseMapping(UnprocessedItems(PayableItems(items)), dest_map),
                         reactivate_zeroed, zeroed))

\* lines 130-149: what is handed to the executor for a batch
Candidates(items, dest_map, reactivate_zeroed, zeroed) ==
    SortItems(
        PhaseZeroBalance(
            PhaseMerge(PhaseMapping(UnprocessedItems(PayableItems(items)), dest_map)),
            reactivate_zeroed, zeroed))

\* ----------------------------------------------------------- report store
\* one worker per payout key
KeyOfWorker(w) == IF w = 1 THEN "k1" ELSE "k2"

\* the payments directory a worker is given: one per payout key
PaymentsDirOf(key_name) == <<"payments", key_name>>

\* lines 260, 298, 304 building the paths in one directory for every worker
ReportDirCommon(c) == PaymentsDirOf("k1")

\* lines 260, 298, 304: report paths are built in self.payments_dir
ReportDir(c) == c.payments_dir

\* get_payment_report_file_path(payments_dir, cycle, nb_failed)
get_payment_report_file_path(payments_dir, cycle, nb_failed) ==
    [dir |-> payments_dir, cycle |-> cycle, nb_failed |-> nb_failed, busy |-> FALSE]

\* get_busy_file(path)
get_busy_file(path) == [path EXCEPT !.busy = TRUE]

\* os.path.isfile
isfile(fs, path) == path \in DOMAIN fs

\* os.remove
remove(fs, path) == [p \in DOMAIN fs \ {path} |-> fs[p]]

\* CsvPaymentFileParser().write(path, rows): create or overwrite
write(fs, path, rows) == [p \in DOMAIN fs \cup {path} |-> IF p = path THEN rows ELSE fs[p]]

\* lines 291-293 keeping the PAID payouts instead of all but the failed ones
SuccessfulPayoutsPaidOnly(already_paid, logs) ==
    SelectSeq(already_paid \o logs, LAMBDA payout : payout.paid = PAID)

\* lines 289-293
SuccessfulPayouts(already_paid, logs) ==
    SelectSeq(already_paid \o logs, LAMBDA payout : payout.paid # FAIL)

\* lines 294-296
UnsuccessfulPayouts(already_paid, logs) ==
    SelectSeq(already_paid \o logs, LAMBDA payout : payout.paid = FAIL)

\* lines 271-273 removing the busy file after a successful attempt only
CleanFailedPaymentReportsOnSuccess(fs, payments_dir, cycle, success) ==
    LET failure_report_file == get_payment_report_file_path(payments_dir, cycle, 1)
        failure_report_busy_file == get_busy_file(failure_report_file)
    IN IF success
       THEN [p \in DOMAIN fs \ {failure_report_file, failure_report_busy_file} |-> fs[p]]
       ELSE fs

\* lines 256-273: clean_failed_payment_reports(payment_cycle, success)
CleanFailedPaymentReports(fs, payments_dir, cycle, success) ==
    LET failure_report_file == get_payment_report_file_path(payments_dir, cycle, 1)
        fs1 == IF success /\ isfile(fs, failure_report_file)
               THEN remove(fs, failure_report_file) ELSE fs
        failure_report_busy_file == get_busy_file(failure_report_file)
    IN IF isfile(fs1, failure_report_busy_file)
       THEN remove(fs1, failure_report_busy_file) ELSE fs1

\* ------------------------------------------------------------- reconciler
\* a row of the calculation report
Row(addr, amount) ==
    [address |-> addr, amount |-> amount,
     delegate_transaction_fee |-> 0, delegator_transaction_fee |-> 0,
     desc |-> <<>>]

\* the calculation report a cycle's calculation stage left behind
CalculationReport ==
    [rows |-> <<Row("a1", 1), Row("a2", 2)>>,
     total_amount |-> 3, rewards_type |-> "A", early_payout |-> FALSE]

\* lines 331-333: the last log of an address wins
RECURSIVE PaymentLogsDict(_)
PaymentLogsDict(logs) ==
    IF logs = <<>> THEN <<>>
    ELSE LET front == PaymentLogsDict(SubSeq(logs, 1, Len(logs) - 1))
             pl == logs[Len(logs)]
         IN [a \in DOMAIN front \cup {pl.address} |->
                IF a = pl.address THEN pl ELSE front[a]]

\* lines 337-343 copying the amount along with the fees
ReconcileRowWithAmount(rl, dict) ==
    IF rl.address \in DOMAIN dict
    THEN [rl EXCEPT !.amount = dict[rl.address].adjusted_amount,
                    !.delegate_transaction_fee = dict[rl.address].delegate_transaction_fee,
                    !.delegator_transaction_fee = dict[rl.address].delegator_transaction_fee]
    ELSE [rl EXCEPT !.desc = rl.desc \o <<NOTE>>]

\* lines 335-345: one row of the report against the logs
ReconcileRow(rl, dict) ==
    IF rl.address \in DOMAIN dict
    THEN [rl EXCEPT !.delegate_transaction_fee = dict[rl.address].delegate_transaction_fee,
                    !.delegator_transaction_fee = dict[rl.address].delegator_transaction_fee]
    ELSE [rl EXCEPT !.desc = rl.desc \o <<NOTE>>]

\* CsvCalculationFileParser().parse(report_file, baking_address):
\* (rows, total amount, rewards type, early payout)
CsvCalculationParse(file) ==
    <<file.rows, file.total_amount, file.rewards_type, file.early_payout>>

\* CsvCalculationFileParser().write(rows, report_file, total_amount,
\* rewards_type, baking_address, early_payout, True)
CsvCalculationWrite(rows, total_amount, rewards_type, early_payout) ==
    [rows |-> rows, total_amount |-> total_amount,
     rewards_type |-> rewards_type, early_payout |-> early_payout]

\* lines 324-355: parse, merge the fees, write back
Reconcile(report, logs) ==
    LET parsed == CsvCalculationParse(report)
        reward_logs_from_report == parsed[1]
        payment_logs_dict == PaymentLogsDict(logs)
    IN CsvCalculationWrite(
           [i \in 1..Len(reward_logs_from_report) |->
               ReconcileRow(reward_logs_from_report[i], payment_logs_dict)],
           parsed[2], parsed[3], parsed[4])

\* ------------------------------------------------------------------ state
VARIABLES
    conf,               \* constructor arguments kept on self (lines 70-88)
    event,              \* self.event, set by stop()
    payments_queue,     \* self.payments_queue
    files,              \* payment report files and busy markers on disk
    calc,               \* calculation report file of each cycle
    pc,                 \* where the worker thread is
    running,            \* run(): the loop variable
    disk_full,          \* history: what disk_is_full() last answered
    payment_batch,      \* the batch being consumed
    payment_items,      \* _consume_batch: candidates after the pipeline
    already_paid_items, \* _consume_batch: processed items carried over
    payment_logs,       \* _consume_batch: what pay() returned
    total_attempts,     \* _consume_batch: what pay() returned
    report_file,        \* _consume_batch: what create_payment_report returned
    entered,            \* history: the items the batch was dequeued with
    zeroed,             \* history: addresses the balance lookup found empty
    steps,              \* history: the collaborator calls made for this batch
    notified,           \* history: what the notifications of this batch carried
    handed,             \* producer: the batch it got back in on_fail
    resubmits,          \* producer: how often it re-enqueued a batch
    produced,           \* producer: the cycles it enqueued a batch for
    exit_sent,          \* producer: whether it enqueued the exit batch
    peers               \* the workers of the other payout keys, by their file operations

vars == <<conf, event, payments_queue, files, calc, pc, running, disk_full,
          payment_batch,
          payment_items, already_paid_items, payment_logs, total_attempts,
          report_file, entered, zeroed, steps, notified, handed, resubmits,
          produced, exit_sent, peers>>

worker_locals == <<payment_items, already_paid_items, payment_logs,
                   total_attempts, report_file, zeroed>>
producer_vars == <<handed, resubmits, produced, exit_sent>>

NoBatch == PaymentBatch(FALSE, 0, <<>>)
NoFile == [dir |-> <<>>, cycle |-> 0, nb_failed |-> 0, busy |-> FALSE]

NotNotified == [recipients |-> -1, attachment |-> NoFile]

\* what the executor may report for one item, and the fees it may charge
OutcomeStatuses == {PAID, FAIL, INJECTED}
Fees == {<<1, 2>>}
Attempts == {0, 1}

\* dest_map: none, or a1 paid out to a2
DestMaps == {<<>>, [a \in {"a1"} |-> "a2"]}

Config(dest_map, reactivate, calc_dir, publish_stats, args, dry_run) ==
    [key_name |-> "k1", payments_dir |-> PaymentsDirOf("k1"),
     dest_map |-> dest_map, reactivate_zeroed |-> reactivate,
     calculations_dir |-> calc_dir, publish_stats |-> publish_stats,
     args |-> args, dry_run |-> dry_run]

\* a worker that publishes stats; the pipeline's settings vary
Configs ==
    { Config(d, r, c, TRUE, TRUE, FALSE) :
        d \in DestMaps, r \in BOOLEAN, c \in BOOLEAN }

\* the worker starts after an interrupted run: the busy marker of each cycle's
\* failure report is still on disk
LeftoverFiles(dirs) ==
    { get_busy_file(get_payment_report_file_path(d, c, 1)) : d \in dirs, c \in Cycles }

\* a worker of another payout key, as far as its report files go
Peer(key_name) ==
    [key_name |-> key_name, payments_dir |-> PaymentsDirOf(key_name),
     pc |-> "get", cycle |-> 0, payment_logs |-> <<>>, touched |-> {}]

InitWith(configs, workers) ==
    /\ conf \in configs
    /\ peers = [w \in workers |-> Peer(KeyOfWorker(w))]
    /\ event = FALSE
    /\ payments_queue = <<>>
    /\ files = [p \in LeftoverFiles({conf.payments_dir}
                                    \cup { peers[w].payments_dir : w \in workers })
                    |-> <<>>]
    /\ calc = [c \in Cycles |-> CalculationReport]
    /\ pc = "loop"
    /\ running = TRUE
    /\ disk_full = FALSE
    /\ payment_batch = NoBatch
    /\ payment_items = <<>>
    /\ already_paid_items = <<>>
    /\ payment_logs = <<>>
    /\ total_attempts = 0
    /\ report_file = NoFile
    /\ entered = <<>>
    /\ zeroed = {}
    /\ steps = <<>>
    /\ notified = NotNotified
    /\ handed = NoBatch
    /\ resubmits = 0
    /\ produced = {}
    /\ exit_sent = FALSE

Init == InitWith(Configs, {})

nb_paid == count_and_log_failed(payment_logs)[1]
nb_failed == count_and_log_failed(payment_logs)[2]
nb_unknown == count_and_log_failed(payment_logs)[3]

\* ------------------------------------------------------------- producers
\* The worker reads the queue only in payments_queue.get (line 104), so a put
\* made while a batch is being consumed is seen exactly as a put made when the
\* worker is next about to call get: puts are taken at those points only.
QueueObserved == pc \in {"get", "done"}

\* a producer enqueues the batch of a cycle
Put ==
    /\ QueueObserved
    /\ \E b \in FreshBatches :
        /\ b.cycle \notin produced
        /\ payments_queue' = Append(payments_queue, b)
        /\ produced' = produced \cup {b.cycle}
    /\ UNCHANGED <<peers, conf, disk_full, event, files, calc, pc, running, payment_batch,
                   worker_locals, entered, steps, notified, handed, resubmits, exit_sent>>

\* a producer enqueues the exit batch
PutExit ==
    /\ QueueObserved
    /\ ~exit_sent
    /\ \E b \in ExitBatches : payments_queue' = Append(payments_queue, b)
    /\ exit_sent' = TRUE
    /\ UNCHANGED <<peers, conf, disk_full, event, files, calc, pc, running, payment_batch,
                   worker_locals, entered, steps, notified, handed, resubmits, produced>>

\* a producer re-enqueues the batch it got back in on_fail, for the same cycle
Resubmit ==
    /\ QueueObserved
    /\ handed # NoBatch
    /\ resubmits < MaxResubmits
    /\ payments_queue' = Append(payments_queue, handed)
    /\ handed' = NoBatch
    /\ resubmits' = resubmits + 1
    /\ UNCHANGED <<peers, conf, disk_full, event, files, calc, pc, running, payment_batch,
                   worker_locals, entered, steps, notified, produced, exit_sent>>

\* lines 421-422: stop()
Stop ==
    /\ ~event
    /\ event' = TRUE
    /\ UNCHANGED <<peers, conf, disk_full, payments_queue, files, calc, pc, running, payment_batch,
                   worker_locals, entered, steps, notified, producer_vars>>

\* ----------------------------------------------------------------- worker
\* the return of _consume_batch into run()'s loop variable (lines 106, 96)
Return(value) ==
    /\ running' = value
    /\ pc' = IF value THEN "loop" ELSE "done"

\* line 116 without its test: no batch is taken for empty
IsEmptyBatchNever(batch) == FALSE

IsEmptyBatch(batch) == Len(batch.batch) = 0

\* line 120 testing the whole batch instead of its first item
IsExitBatchAllItems(batch) ==
    Len(batch.batch) > 0
    /\ \A i \in 1..Len(batch.batch) : batch.batch[i].type = EXIT_PAYMENT_TYPE

\* line 120
IsExitBatch(batch) ==
    Len(batch.batch) > 0 /\ batch.batch[1].type = EXIT_PAYMENT_TYPE

\* _consume_batch has returned: its locals and the batch are gone
ForgetBatch ==
    /\ payment_batch' = NoBatch
    /\ payment_items' = <<>>
    /\ already_paid_items' = <<>>
    /\ payment_logs' = <<>>
    /\ total_attempts' = 0
    /\ report_file' = NoFile
    /\ entered' = <<>>
    /\ zeroed' = {}
    /\ steps' = <<>>
    /\ notified' = NotNotified

\* lines 99-101 without the break: the worker waits for a batch all the same
AfterDiskCheckNoBreak(full) == "get"

\* lines 99-104: a full disk ends the loop, otherwise the worker waits for a batch
AfterDiskCheck(full) == IF full THEN "done" ELSE "get"

\* lines 96-101: the disk guard at the top of the loop
CheckDisk ==
    /\ pc = "loop"
    /\ \E disk_is_full \in BOOLEAN :
        /\ disk_full' = disk_is_full
        /\ running' = (running /\ ~disk_is_full)
        /\ pc' = AfterDiskCheck(disk_is_full)
    /\ ForgetBatch
    /\ UNCHANGED <<peers, conf, event, payments_queue, files, calc, producer_vars>>

\* line 104: payments_queue.get(True) blocks until a batch is there
Get ==
    /\ pc = "get"
    /\ payments_queue # <<>>
    /\ payment_batch' = Head(payments_queue)
    /\ payments_queue' = Tail(payments_queue)
    /\ entered' = Head(payments_queue).batch
    /\ pc' = "consume"
    /\ UNCHANGED <<peers, conf, disk_full, event, files, calc, running, worker_locals, steps,
                   notified, producer_vars>>

\* lines 114-160: empty batch, exit batch, or the transform pipeline
ConsumeBatch ==
    /\ pc = "consume"
    /\ IF IsEmptyBatch(payment_batch)
       THEN /\ Return(TRUE)
            /\ UNCHANGED <<payment_items, already_paid_items, zeroed>>
       ELSE IF IsExitBatch(payment_batch)
       THEN /\ Return(FALSE)
            /\ UNCHANGED <<payment_items, already_paid_items, zeroed>>
       ELSE /\ already_paid_items' = AlreadyPaidItems(PayableItems(payment_batch.batch))
            /\ \E z \in SUBSET LookedUp(payment_batch.batch, conf.dest_map) :
                /\ zeroed' = z
                /\ payment_items' = Candidates(payment_batch.batch, conf.dest_map,
                                               conf.reactivate_zeroed, z)
            /\ pc' = "pay"
            /\ running' = running
    /\ UNCHANGED <<peers, conf, disk_full, event, payments_queue, files, calc, payment_batch,
                   payment_logs, total_attempts, report_file, entered, steps,
                   notified, producer_vars>>

\* BatchPayer.pay annotates each item with a status and the fees
Annotate(items, outcome, fee) ==
    [i \in 1..Len(items) |->
        [items[i] EXCEPT !.paid = outcome[i],
                         !.delegate_transaction_fee = fee[1],
                         !.delegator_transaction_fee = fee[2]]]

\* line 171 left out: the batch keeps the items it came with
OverrideBatchDataSkipped(batch, logs) == batch

\* line 171: payment_batch.batch = payment_logs
OverrideBatchData(batch, logs) == [batch EXCEPT !.batch = logs]

\* lines 162-171: the payment, and the batch's items overridden by its result
Pay ==
    /\ pc = "pay"
    /\ \E outcome \in [1..Len(payment_items) -> OutcomeStatuses],
          fee \in Fees, attempts \in Attempts :
        /\ payment_logs' = Annotate(payment_items, outcome, fee)
        /\ total_attempts' = attempts
    /\ payment_batch' = OverrideBatchData(payment_batch, payment_logs')
    /\ steps' = Append(steps, "pay")
    /\ pc' = "report"
    /\ UNCHANGED <<peers, conf, disk_full, event, payments_queue, files, calc, running,
                   payment_items, already_paid_items, report_file, entered,
                   zeroed, notified, producer_vars>>

\* lines 182-188 passed over: the producer is told right after the report
AfterReportToProducer == "notify_producer"

\* line 182: reconcile only after an attempt
AfterReport == IF total_attempts > 0 THEN "reconcile" ELSE "clean"

\* lines 289-300: the report of the cycle
CreatePaymentReport ==
    /\ pc = "report"
    /\ report_file' = get_payment_report_file_path(ReportDir(conf), payment_batch.cycle, 0)
    /\ files' = write(files, report_file',
                      SuccessfulPayouts(already_paid_items, payment_logs))
    /\ steps' = Append(steps, "report")
    /\ pc' = IF nb_failed > 0 THEN "report_failed" ELSE AfterReport
    /\ UNCHANGED <<peers, conf, disk_full, event, payments_queue, calc, running, payment_batch,
                   payment_items, already_paid_items, payment_logs,
                   total_attempts, entered, zeroed, notified, producer_vars>>

\* lines 302-307: the report of the failed payments
CreateFailedReport ==
    /\ pc = "report_failed"
    /\ report_file' = get_payment_report_file_path(ReportDir(conf), payment_batch.cycle, nb_failed)
    /\ files' = write(files, report_file',
                      UnsuccessfulPayouts(already_paid_items, payment_logs))
    /\ steps' = Append(steps, "report_failed")
    /\ pc' = AfterReport
    /\ UNCHANGED <<peers, conf, disk_full, event, payments_queue, calc, running, payment_batch,
                   payment_items, already_paid_items, payment_logs,
                   total_attempts, entered, zeroed, notified, producer_vars>>

\* lines 318-361: with no calculations directory the method logs and then
\* returns report_file, a local it never assigned: the UnboundLocalError is
\* caught at line 251
AddTransactionFees ==
    /\ pc = "reconcile"
    /\ IF conf.calculations_dir
       THEN /\ calc' = [calc EXCEPT ![payment_batch.cycle] =
                            Reconcile(calc[payment_batch.cycle], payment_logs)]
            /\ steps' = Append(steps, "reconcile")
            /\ pc' = "clean"
            /\ running' = running
       ELSE /\ calc' = calc
            /\ steps' = Append(steps, "unbound")
            /\ Return(TRUE)
    /\ UNCHANGED <<peers, conf, disk_full, event, payments_queue, files, payment_batch,
                   worker_locals, entered, notified, producer_vars>>

\* line 188
CleanReports ==
    /\ pc = "clean"
    /\ files' = CleanFailedPaymentReports(files, ReportDir(conf), payment_batch.cycle, nb_failed = 0)
    /\ steps' = Append(steps, "clean")
    /\ pc' = "notify_producer"
    /\ UNCHANGED <<peers, conf, disk_full, event, payments_queue, calc, running, payment_batch,
                   worker_locals, entered, notified, producer_vars>>

\* lines 191-196: which callback of the producer is due
ProducerCallback(failed) == IF failed = 0 THEN "on_success" ELSE "on_fail"

\* line 199 without its test: the notifications are sent for every batch
AfterProducerAlways == "payout"

\* line 199
AfterProducer == IF total_attempts > 0 THEN "payout" ELSE "stats"

\* lines 190-196
NotifyProducer ==
    /\ pc = "notify_producer"
    /\ IF payment_batch.producer_ref
       THEN /\ steps' = Append(steps, ProducerCallback(nb_failed))
            /\ handed' = IF ProducerCallback(nb_failed) = "on_fail"
                         THEN payment_batch ELSE handed
       ELSE UNCHANGED <<steps, handed>>
    /\ pc' = AfterProducer
    /\ UNCHANGED <<peers, conf, disk_full, event, payments_queue, files, calc, running,
                   payment_batch, worker_locals, entered, notified, resubmits,
                   produced, exit_sent>>

\* lines 223-226
SendPayoutNotification ==
    /\ pc = "payout"
    /\ notified' = [notified EXCEPT !.recipients = nb_paid + nb_failed + nb_unknown]
    /\ steps' = Append(steps, "payout")
    /\ pc' = "admin"
    /\ UNCHANGED <<peers, conf, disk_full, event, payments_queue, files, calc, running,
                   payment_batch, worker_locals, entered, producer_vars>>

\* lines 228-231
SendAdminNotification ==
    /\ pc = "admin"
    /\ notified' = [notified EXCEPT !.attachment = report_file]
    /\ steps' = Append(steps, "admin")
    /\ pc' = "stats"
    /\ UNCHANGED <<peers, conf, disk_full, event, payments_queue, files, calc, running,
                   payment_batch, worker_locals, entered, producer_vars>>

\* line 234 without the test of self.args
StatsEnabledWithoutArgs == conf.publish_stats /\ ~conf.dry_run

\* line 234
StatsEnabled == conf.publish_stats /\ conf.args /\ ~conf.dry_run

\* lines 233-254
PublishStats ==
    /\ pc = "stats"
    /\ steps' = IF StatsEnabled THEN Append(steps, "stats") ELSE steps
    /\ Return(TRUE)
    /\ UNCHANGED <<peers, conf, disk_full, event, payments_queue, files, calc, payment_batch,
                   worker_locals, entered, notified, producer_vars>>

\* the steps of _consume_batch in which a collaborator is called
FaultPoints ==
    {"consume", "pay", "report", "report_failed", "reconcile", "clean",
     "payout", "admin", "stats"}

\* lines 251-254 with the handler ending the loop
AfterFaultStop == FALSE

\* lines 251-254: what the handler returns after logging the exception
AfterFault == TRUE

\* a collaborator raises: caught and logged at line 251
Fault ==
    /\ pc \in FaultPoints
    /\ pc = "consume" => ~IsEmptyBatch(payment_batch) /\ ~IsExitBatch(payment_batch)
    /\ pc = "reconcile" => conf.calculations_dir
    /\ pc = "stats" => StatsEnabled
    /\ steps' = Append(steps, "fault")
    /\ Return(AfterFault)
    /\ UNCHANGED <<peers, conf, disk_full, event, payments_queue, files, calc, payment_batch,
                   worker_locals, entered, notified, producer_vars>>

\* the producer's callback raises: caught and logged at line 251
CallbackFault ==
    /\ pc = "notify_producer"
    /\ payment_batch.producer_ref
    /\ steps' = steps \o <<ProducerCallback(nb_failed), "fault">>
    /\ Return(AfterFault)
    /\ UNCHANGED <<peers, conf, disk_full, event, payments_queue, files, calc, payment_batch,
                   worker_locals, entered, notified, producer_vars>>

Worker ==
    \/ CheckDisk
    \/ Get
    \/ ConsumeBatch
    \/ Pay
    \/ CreatePaymentReport
    \/ CreateFailedReport
    \/ AddTransactionFees
    \/ CleanReports
    \/ NotifyProducer
    \/ SendPayoutNotification
    \/ SendAdminNotification
    \/ PublishStats
    \/ Fault
    \/ CallbackFault

Producer == Put \/ PutExit \/ Resubmit

Next == Worker \/ Producer

Spec == Init /\ [][Next]_vars

\* workers that differ in the settings the stats step reads
StatsConfigs ==
    { Config(<<>>, TRUE, TRUE, p, a, d) :
        p \in BOOLEAN, a \in BOOLEAN, d \in BOOLEAN }

InitStats == InitWith(StatsConfigs, {})

SpecStats == InitStats /\ [][Next]_vars

\* ------------------------------------------------------ concurrent workers
\* Workers of several payout keys on one file system. Each is followed
\* through the steps of _consume_batch that touch report files; the items the
\* executor returned to it stand for everything before the report step.
Workers == {1, 2}

\* what the executor returned: items paid or failed
PeerLogs ==
    SeqsUpTo({ Item("a1", TYPE_DELEGATOR, AmountOf("a1"), TRUE, s) : s \in {PAID, FAIL} },
             MaxItems)

peer_nb_failed(w) == count_and_log_failed(peers[w].payment_logs)[2]

worker_vars == <<conf, event, payments_queue, calc, pc, running, disk_full,
                 payment_batch, worker_locals, entered, steps, notified,
                 producer_vars>>

PeerForgetBatch(w) ==
    peers' = [peers EXCEPT ![w].pc = "get", ![w].cycle = 0, ![w].payment_logs = <<>>]

\* lines 104-174: a batch is taken and paid
PeerPay(w) ==
    /\ peers[w].pc = "get"
    /\ \E c \in Cycles, logs \in PeerLogs :
        peers' = [peers EXCEPT ![w].pc = "report", ![w].cycle = c,
                               ![w].payment_logs = logs]
    /\ UNCHANGED <<files, worker_vars>>

\* lines 289-300
PeerCreatePaymentReport(w) ==
    /\ peers[w].pc = "report"
    /\ LET report_file_0 ==
               get_payment_report_file_path(ReportDir(peers[w]), peers[w].cycle, 0)
       IN /\ files' = write(files, report_file_0,
                            SuccessfulPayouts(<<>>, peers[w].payment_logs))
          /\ peers' = [peers EXCEPT
                         ![w].pc = IF peer_nb_failed(w) > 0 THEN "report_failed" ELSE "clean",
                         ![w].touched = @ \cup {report_file_0}]
    /\ UNCHANGED worker_vars

\* lines 302-307
PeerCreateFailedReport(w) ==
    /\ peers[w].pc = "report_failed"
    /\ LET report_file_n ==
               get_payment_report_file_path(ReportDir(peers[w]), peers[w].cycle,
                                            peer_nb_failed(w))
       IN /\ files' = write(files, report_file_n,
                            UnsuccessfulPayouts(<<>>, peers[w].payment_logs))
          /\ peers' = [peers EXCEPT ![w].pc = "clean",
                                    ![w].touched = @ \cup {report_file_n}]
    /\ UNCHANGED worker_vars

\* line 188, and the worker back at its loop
PeerCleanReports(w) ==
    /\ peers[w].pc = "clean"
    /\ files' = CleanFailedPaymentReports(files, ReportDir(peers[w]), peers[w].cycle,
                                          peer_nb_failed(w) = 0)
    /\ peers' = [peers EXCEPT ![w].pc = "get", ![w].cycle = 0,
                              ![w].payment_logs = <<>>,
                              ![w].touched = @ \cup (DOMAIN files \ DOMAIN files')]
    /\ UNCHANGED worker_vars

\* lines 251-254: a step raised, the worker is back at its loop
PeerFault(w) ==
    /\ peers[w].pc \in {"report", "report_failed", "clean"}
    /\ PeerForgetBatch(w)
    /\ UNCHANGED <<files, worker_vars>>

NextPeers ==
    \/ \E w \in DOMAIN peers : PeerPay(w)
    \/ \E w \in DOMAIN peers : PeerCreatePaymentReport(w)
    \/ \E w \in DOMAIN peers : PeerCreateFailedReport(w)
    \/ \E w \in DOMAIN peers : PeerCleanReports(w)
    \/ \E w \in DOMAIN peers : PeerFault(w)

InitPeers == InitWith({Config(<<>>, TRUE, TRUE, TRUE, TRUE, FALSE)}, Workers)

SpecPeers == InitPeers /\ [][NextPeers]_vars

\* the same worker with another thread calling stop() at any moment
NextStop == Next \/ Stop

SpecStop == Init /\ [][NextStop]_vars

\* ----------------------------------------------------------------- claims
Has(step) == \E i \in 1..Len(steps) : steps[i] = step

LastStep == IF steps = <<>> THEN "none" ELSE steps[Len(steps)]

Times(step) == Cardinality({ i \in 1..Len(steps) : steps[i] = step })

\* the outcome items the executor marked failed
FailedLogs == { i \in 1..Len(payment_logs) : payment_logs[i].paid = FAIL }

\* the batch was dequeued with the exit item first
FirstItemIsExit == entered # <<>> /\ entered[1].type = EXIT_PAYMENT_TYPE

\* _consume_batch has just returned from a batch with items
Returned == pc \in {"loop", "done"} /\ entered # <<>>

\* the report of the cycle being consumed
CanonicalReport == files[get_payment_report_file_path(ReportDir(conf), payment_batch.cycle, 0)]

\* the payable items that were already processed when the batch was dequeued
EnteredProcessed ==
    { e \in Range(entered) : e.payable /\ e.paid \in {PAID, INJECTED} }

\* C1: no item that is Paid or Injected when its batch is consumed is in the
\* list handed to the executor, also when the batch is the outcome of an
\* earlier attempt that a producer put back on the queue.
C1_ProcessedNeverExecuted ==
    /\ \A i \in 1..Len(payment_items) : payment_items[i].paid \notin {PAID, INJECTED}
    /\ \A e \in Range(entered) :
        e.paid \in {PAID, INJECTED} => e \notin Range(payment_items)

\* C1 witness: a resubmitted batch holding an item the executor marked
\* processed in the earlier attempt is executed for its other items
C1_Witness ==
    /\ Has("pay")
    /\ payment_items # <<>>
    /\ \E e \in Range(entered) :
        e.paid \in {PAID, INJECTED} /\ e.delegate_transaction_fee > 0

\* C2 as stated: every item that entered the batch Paid or Injected is in the
\* report written by the attempt, unchanged.
C2_EveryProcessedItemReported ==
    Has("report") =>
        \A e \in Range(entered) :
            e.paid \in {PAID, INJECTED} => e \in Range(CanonicalReport)

\* C2 amended: every payable item that entered the batch Paid or Injected is
\* in the report written by the attempt, unchanged.
C2_PayableProcessedItemReported ==
    Has("report") => \A e \in EnteredProcessed : e \in Range(CanonicalReport)

\* C2 witness: a report written for a batch that came with an Injected item
C2_Witness ==
    /\ Has("report")
    /\ \E e \in EnteredProcessed : e.paid = INJECTED
    /\ \E e \in Range(entered) : ~e.payable /\ e.paid = PAID

\* C3 as stated: once an attempt has completed with no failed item, neither a
\* failure report of any count nor a busy marker is left for the cycle.
C3_NoFailureArtifactAfterSuccess ==
    (/\ pc = "loop"
     /\ Has("pay") /\ Has("clean") /\ ~Has("fault") /\ ~Has("unbound")
     /\ FailedLogs = {})
    => \A p \in DOMAIN files :
        p.cycle = payment_batch.cycle => (p.nb_failed = 0 /\ ~p.busy)

\* C4: once the report step is through, the report of the cycle holds exactly
\* the carried-over processed items and the outcome items that did not fail;
\* a failure report is written exactly when N > 0 items failed, under the
\* key (cycle, N), holding exactly the N failed outcome items; the two
\* reports share no item and every outcome item is in one of them.
C4_ReportsPartitionOutcome ==
    LET n == Cardinality(FailedLogs)
        failed == { payment_logs[i] : i \in FailedLogs }
        passed == { payment_logs[i] : i \in (1..Len(payment_logs)) \ FailedLogs }
        failure_path == get_payment_report_file_path(ReportDir(conf), payment_batch.cycle, n)
    IN /\ LastStep = "report" => (pc = "report_failed" <=> n > 0)
       /\ Has("report_failed") => n > 0
       /\ (Has("report") /\ (n > 0 => Has("report_failed"))) =>
            /\ Range(CanonicalReport) = EnteredProcessed \cup passed
            /\ Len(CanonicalReport) =
                 Len(SelectSeq(entered, LAMBDA e : e \in EnteredProcessed))
                 + Len(payment_logs) - n
            /\ n > 0 =>
                /\ failure_path \in DOMAIN files
                /\ Range(files[failure_path]) = failed
                /\ Len(files[failure_path]) = n
                /\ Range(files[failure_path]) \cap Range(CanonicalReport) = {}
                /\ \A i \in 1..Len(payment_logs) :
                    \/ payment_logs[i] \in Range(CanonicalReport)
                    \/ payment_logs[i] \in Range(files[failure_path])

\* C4 witness: both reports written for a batch with a carried-over item and
\* an item that failed
C4_Witness ==
    /\ Has("report_failed")
    /\ EnteredProcessed # {}
    /\ Cardinality(FailedLogs) = 1

\* C5 as stated: a batch with items and a producer reference, consumed with
\* no collaborator failing, gets exactly one callback: on_success if nothing
\* failed, on_fail otherwise, whatever the configuration.
C5_ExactlyOneCallback ==
    (/\ Returned /\ ~FirstItemIsExit
     /\ payment_batch.producer_ref
     /\ ~Has("fault"))
    => /\ Times("on_success") + Times("on_fail") = 1
       /\ Has(IF FailedLogs = {} THEN "on_success" ELSE "on_fail")

\* C6: after a fault in any step _consume_batch returns True and the worker
\* is back at the top of its loop; it returns False only for an exit batch.
C6_FaultsAreContained ==
    /\ LastStep \in {"fault", "unbound"} => (pc = "loop" /\ running)
    /\ (Returned /\ pc = "done") => FirstItemIsExit
    /\ (Returned /\ ~FirstItemIsExit) => running

\* C6 witness: a notification raised after the producer was told of a failure
C6_Witness ==
    /\ LastStep = "fault"
    /\ Has("on_fail")
    /\ Has("payout")

\* C7: a batch whose first item is the exit item ends the worker whatever
\* follows the item: nothing is called or written for it, and the worker
\* takes no batch from the queue afterwards.
C7_ExitBatchTerminates ==
    /\ [][(pc = "consume" /\ FirstItemIsExit) =>
            /\ pc' = "done" /\ ~running'
            /\ steps' = <<>> /\ files' = files /\ calc' = calc
            /\ handed' = handed /\ notified' = notified]_vars
    /\ [][pc = "done" =>
            /\ pc' = "done"
            /\ Len(payments_queue') >= Len(payments_queue)
            /\ steps' = steps /\ files' = files /\ calc' = calc]_vars

\* C7 witness: the worker ended on an exit batch with an item after the exit
\* item, and a batch is waiting in the queue
C7_Witness ==
    /\ pc = "done"
    /\ FirstItemIsExit
    /\ Len(entered) > 1
    /\ payments_queue # <<>>

\* C8: the disk guard is asked at the top of every iteration, before the
\* queue is read; when it answers full the worker ends for good, takes no
\* batch from the queue and touches no report file or busy marker.
C8_DiskFullEndsLoop ==
    /\ [][(pc = "loop" /\ disk_full') =>
            /\ pc' = "done" /\ ~running'
            /\ payments_queue' = payments_queue
            /\ files' = files /\ calc' = calc]_vars
    /\ [][(pc' = "get" /\ pc # "get") => (pc = "loop" /\ ~disk_full')]_vars
    /\ [][Len(payments_queue') < Len(payments_queue) => pc = "get"]_vars
    /\ [][(pc = "done" /\ disk_full) =>
            /\ pc' = "done"
            /\ Len(payments_queue') >= Len(payments_queue)
            /\ files' = files]_vars

\* C8 witness: the worker ended on a full disk after consuming a batch, with
\* a batch still in the queue
C8_Witness ==
    /\ pc = "done"
    /\ disk_full
    /\ payments_queue # <<>>
    /\ get_payment_report_file_path(ReportDir(conf), 100, 0) \in DOMAIN files

\* C9 as stated: once stop() was called the worker, at the next loop
\* boundary, ends instead of going on to the next batch.
C9_StopEndsLoop ==
    [][(event /\ pc = "loop") => pc' # "get"]_vars

\* a row changed in its fees only
FeesOnly(old, new) ==
    new = [old EXCEPT !.delegate_transaction_fee = new.delegate_transaction_fee,
                      !.delegator_transaction_fee = new.delegator_transaction_fee]

\* a row changed in its note only
NoteOnly(old, new) == new = [old EXCEPT !.desc = new.desc]

\* C10: reconciling a cycle's calculation report changes the fees of the
\* rows whose address is among the outcome items and the note of the other
\* rows, and nothing else: amounts, the rows and their order, the total, the
\* reward type and the early-payout flag are written back as read.
C10_ReconcileFrame ==
    [][IF pc # "reconcile" THEN calc' = calc
       ELSE LET cycle == payment_batch.cycle
                old == calc[cycle]
                new == calc'[cycle]
                matched == { payment_logs[i].address : i \in 1..Len(payment_logs) }
            IN /\ \A c \in Cycles \ {cycle} : calc'[c] = calc[c]
               /\ new.total_amount = old.total_amount
               /\ new.rewards_type = old.rewards_type
               /\ new.early_payout = old.early_payout
               /\ Len(new.rows) = Len(old.rows)
               /\ \A i \in 1..Len(old.rows) :
                     IF old.rows[i].address \in matched
                     THEN FeesOnly(old.rows[i], new.rows[i])
                     ELSE NoteOnly(old.rows[i], new.rows[i])]_vars

\* C10 witness: a reconciled report with a row that got the fees of its
\* outcome item and a row that got the note
C10_Witness ==
    /\ LastStep = "reconcile"
    /\ \E i \in 1..Len(calc[100].rows) :
        calc[100].rows[i].delegator_transaction_fee > 0
    /\ \E i \in 1..Len(calc[100].rows) : calc[100].rows[i].desc # <<>>

\* the failure report the cleanup looks for, and its busy marker
StaleFailureReport == get_payment_report_file_path(ReportDir(conf), payment_batch.cycle, 1)
StaleBusyMarker == get_busy_file(StaleFailureReport)

\* the cleanup step has run through
Cleaned == pc = "clean" /\ pc' = "notify_producer"

FaultedBefore(step) ==
    \E i \in 1..Len(steps) :
        /\ steps[i] \in {"fault", "unbound"}
        /\ \A j \in 1..(i - 1) : steps[j] # step

\* the outcome items by status, counted from the list itself
Tally(status) ==
    Cardinality({ i \in 1..Len(payment_logs) : payment_logs[i].paid = status })

\* C12: the payout notification and the admin notification are each sent at
\* most once per batch, only after an attempt (total_attempts > 0); a batch
\* that was consumed gets both exactly when total_attempts > 0 and no step up
\* to the notification raised; the payout notification carries
\* paid + failed + injected of the outcome items as its recipient count.
C12_NotificationsIffAttempted ==
    /\ Times("payout") <= 1 /\ Times("admin") <= 1
    /\ Has("payout") =>
        /\ total_attempts > 0
        /\ notified.recipients = Tally(PAID) + Tally(FAIL) + Tally(INJECTED)
    /\ Has("admin") => Has("payout")
    /\ ~Has("payout") => notified.recipients = -1
    /\ (Returned /\ ~FirstItemIsExit) =>
        /\ Has("payout") <=> (total_attempts > 0 /\ ~FaultedBefore("payout"))
        /\ Has("admin") <=> (total_attempts > 0 /\ ~FaultedBefore("admin"))

\* C12 witness: both notifications were sent for a batch with a failed and an
\* injected outcome item, two recipients counted
C12_Witness ==
    /\ Returned
    /\ Has("payout") /\ Has("admin")
    /\ Tally(FAIL) = 1 /\ Tally(INJECTED) = 1
    /\ notified.recipients = 2

\* C13 as stated: the file attached to the admin notification is the report
\* of the cycle (fail count 0), whether or not an item failed.
C13_AdminGetsCanonicalReport ==
    Has("admin") =>
        notified.attachment = get_payment_report_file_path(ReportDir(conf), payment_batch.cycle, 0)

\* the batch went through every step up to the stats step, which did not raise
ReachedStats ==
    Returned /\ ~FirstItemIsExit /\ ~Has("fault") /\ ~Has("unbound")

\* C14 as stated: a batch that reaches the stats step has a stats record
\* published exactly when stats are enabled and the run is not a dry run.
C14_StatsIffEnabledAndNotDryRun ==
    ReachedStats => (Has("stats") <=> (conf.publish_stats /\ ~conf.dry_run))

\* C14 amended: a stats record is published exactly when stats are enabled,
\* the run's arguments were given to the worker and the run is not a dry
\* run; at most one record per batch.
C14_StatsIffEnabledWithArgs ==
    /\ Times("stats") <= 1
    /\ Has("stats") => (conf.publish_stats /\ conf.args /\ ~conf.dry_run)
    /\ ReachedStats =>
        (Has("stats") <=> (conf.publish_stats /\ conf.args /\ ~conf.dry_run))

\* C14 witness: a worker with stats enabled, no dry run and no arguments
\* went through a batch, notifications included, and published nothing
C14_Witness ==
    /\ ReachedStats
    /\ Has("admin")
    /\ conf.publish_stats /\ ~conf.dry_run /\ ~conf.args
    /\ ~Has("stats")

\* a batch is being consumed, or was until the worker came back to its loop
InBatch == payment_batch # NoBatch

\* C15 as stated: until the report, reconcile and cleanup steps are through,
\* also when one of them raised, the batch holds the items the producer
\* supplied.
C15_AssignedAfterCleanup ==
    (InBatch /\ ~Has("clean")) => payment_batch.batch = entered

\* C15 amended: the batch's items are assigned once, with the outcome items,
\* as soon as the executor has returned: before the report step and so before
\* any callback; from then on, also after a fault in the report, reconcile or
\* cleanup step, the batch holds the outcome items, and before it the items
\* the producer supplied.
C15_AssignedRightAfterPay ==
    /\ Times("pay") <= 1
    /\ InBatch =>
        payment_batch.batch = (IF Has("pay") THEN payment_logs ELSE entered)
    /\ (Has("report") \/ Has("on_success") \/ Has("on_fail")) => Has("pay")
    /\ (handed # NoBatch) => \A i \in 1..Len(handed.batch) :
                                handed.batch[i].paid \in OutcomeStatuses

\* C15 witness: the report step raised, and the batch holds outcome items
\* that are not the items it was dequeued with
C15_Witness ==
    /\ steps = <<"pay", "fault">>
    /\ payment_batch.batch = payment_logs
    /\ payment_batch.batch # entered

\* the failure report written by the attempt
FailureReport ==
    files[get_payment_report_file_path(ReportDir(conf), payment_batch.cycle, Cardinality(FailedLogs))]

\* C16: with reactivate_zeroed off, no candidate whose destination has a zero
\* balance is handed to the executor or comes back from it, the rows of the
\* report at such an address are carried-over processed items only, and the
\* failure report has no row at such an address; with reactivate_zeroed on,
\* every such candidate is handed to the executor.
C16_ZeroBalanceFilter ==
    IF conf.reactivate_zeroed
    THEN \A a \in zeroed : \E i \in 1..Len(payment_items) : payment_items[i].address = a
    ELSE /\ \A i \in 1..Len(payment_items) : payment_items[i].address \notin zeroed
         /\ \A i \in 1..Len(payment_logs) : payment_logs[i].address \notin zeroed
         /\ Has("report") =>
              \A r \in Range(CanonicalReport) :
                  r.address \in zeroed => r \in EnteredProcessed
         /\ Has("report_failed") =>
              \A r \in Range(FailureReport) : r.address \notin zeroed

\* C16 witness: with reactivate_zeroed off, one of two candidates had a zero
\* balance; the other one failed and both reports were written
C16_Witness ==
    /\ ~conf.reactivate_zeroed
    /\ zeroed # {}
    /\ Len(payment_logs) = 1
    /\ Has("report_failed")

\* the payable, unprocessed items the batch was dequeued with
EnteredCandidates ==
    SelectSeq(entered, LAMBDA e : e.payable /\ e.paid \notin {PAID, INJECTED})

\* the address an item is paid out to
Destination(addr) ==
    IF addr \in DOMAIN conf.dest_map THEN conf.dest_map[addr] ELSE addr

\* the candidates that are paid out to an address
GroupOf(dest) ==
    SelectSeq(EnteredCandidates, LAMBDA e : Destination(e.address) = dest)

\* the pipeline is through and its zero-balance phase dropped nothing
PipelineKeptAll ==
    /\ (pc = "pay" \/ Has("pay"))
    /\ (conf.reactivate_zeroed \/ zeroed = {})

\* C17: after the remap and the merge, the candidates paid out to one address
\* are one item: for a group of several, an item of type Merged with the sum
\* of their amounts; for a single candidate, the candidate itself at its
\* destination; no other item is there, and the amounts add up to what the
\* candidates had.
C17_MergePreservesAmounts ==
    PipelineKeptAll =>
        LET dests == { Destination(e.address) : e \in Range(EnteredCandidates) }
        IN /\ Len(payment_items) = Cardinality(dests)
           /\ \A d \in dests :
                \E i \in 1..Len(payment_items) :
                    /\ payment_items[i].address = d
                    /\ IF Len(GroupOf(d)) > 1
                       THEN /\ payment_items[i].type = TYPE_MERGED
                            /\ payment_items[i].adjusted_amount = SumAmounts(GroupOf(d))
                       ELSE payment_items[i] = [GroupOf(d)[1] EXCEPT !.address = d]
           /\ SumAmounts(payment_items) = SumAmounts(EnteredCandidates)

\* C17 witness: two candidates, one of them remapped to the address of the
\* other, became one Merged item
C17_Witness ==
    /\ PipelineKeptAll
    /\ Len(EnteredCandidates) = 2
    /\ EnteredCandidates[1].address # EnteredCandidates[2].address
    /\ Len(payment_items) = 1
    /\ payment_items[1].type = TYPE_MERGED
    /\ payment_items[1].adjusted_amount = 3

StepRank(step) ==
    CASE step = "pay" -> 1
      [] step = "report" -> 2
      [] step = "report_failed" -> 3
      [] step \in {"reconcile", "unbound"} -> 4
      [] step = "clean" -> 5
      [] step \in {"on_success", "on_fail"} -> 6
      [] step = "payout" -> 7
      [] step = "admin" -> 8
      [] step = "stats" -> 9
      [] OTHER -> 10

\* the step is in the log and nothing raised in it
Completed(step) ==
    \E i \in 1..Len(steps) :
        /\ steps[i] = step
        /\ ~(i < Len(steps) /\ steps[i + 1] = "fault" /\ step \in {"on_success", "on_fail"})

\* C19: the steps of one _consume_batch are taken in the order executor,
\* report, failure report, reconcile, cleanup, producer callback, payout
\* notification, admin notification, stats, each at most once and none
\* after an exception; a step is taken only after the mandatory steps before
\* it; when a callback is invoked the report of the cycle is on disk, and
\* the notifications of a batch with a producer are sent only after its
\* callback has returned.
C19_StepsInOrder ==
    /\ \A i \in 1..Len(steps), j \in 1..Len(steps) :
        i < j => StepRank(steps[i]) < StepRank(steps[j])
    /\ \A i \in 1..Len(steps) :
        steps[i] \in {"fault", "unbound"} => i = Len(steps)
    /\ Has("report") => Has("pay")
    /\ Has("report_failed") => Has("report")
    /\ (Has("reconcile") \/ Has("unbound") \/ Has("clean")) =>
          (Has("report") /\ (FailedLogs # {} => Has("report_failed")))
    /\ (Has("on_success") \/ Has("on_fail")) =>
        /\ Has("clean")
        /\ isfile(files, get_payment_report_file_path(ReportDir(conf), payment_batch.cycle, 0))
    /\ Has("payout") =>
        /\ Has("clean")
        /\ Has("reconcile")
        /\ payment_batch.producer_ref =>
              (Completed("on_success") \/ Completed("on_fail"))
    /\ Has("stats") => Has("clean")

\* C19 witness: a batch with a failed item and a producer went through every
\* step
C19_Witness ==
    steps = <<"pay", "report", "report_failed", "reconcile", "clean", "on_fail",
              "payout", "admin", "stats">>

\* the batch being consumed came with no item, or with the exit item first
EmptyOrExit == InBatch /\ (entered = <<>> \/ FirstItemIsExit)

\* C20: for a dequeued batch the executor is called at most once and at most
\* one producer callback is invoked, on_success or on_fail and never twice,
\* also when a step raised; for an empty batch and for an exit batch nothing
\* is called, and no report file, busy marker or calculation report is
\* written, removed or changed.
C20_AtMostOnce ==
    /\ [](/\ Times("pay") <= 1
          /\ Times("on_success") + Times("on_fail") <= 1
          /\ EmptyOrExit => (steps = <<>> /\ notified = NotNotified))
    /\ [][(EmptyOrExit \/ EmptyOrExit') =>
            (files' = files /\ calc' = calc)]_vars

\* C20 witness: the worker is back at its loop after an empty batch that had
\* a producer reference
C20_Witness ==
    /\ pc = "loop"
    /\ InBatch
    /\ entered = <<>>
    /\ payment_batch.producer_ref
    /\ steps = <<>>

====
